---- MODULE Spec2Model ----
(***************************************************************************)
(* Model of the EBEAM dashboard's cathode heating subsystem                *)
(* (src/subsystem/cathode_heating.py) and of its power supply driver       *)
(* (src/instrumentctl/power_supply_9014.py).                               *)
(*                                                                         *)
(* Units: temperatures are thousandths of a degree Celsius, voltages and   *)
(* currents thousandths of a volt / ampere, emission currents thousandths  *)
(* of a milliampere.  Texts (device responses, command fields) are         *)
(* sequences of one-character strings; "CR", "LF" and "SP" stand for       *)
(* carriage return, line feed and space.                                   *)
(***************************************************************************)
EXTENDS Integers, Sequences, FiniteSets, TLC

(***************************************************************************)
(* Bounds of the model.                                                    *)
(***************************************************************************)
\* safety polls explored in the subsystem specification
MaxPolls == 2
\* operator events (button clicks) explored in the subsystem specification
MaxOps == 2
\* changes of an overtemperature limit explored in the monitor specification
MaxLimitChanges == 1
\* ramp threads started on the driver
MaxRamps == 2
\* operations the thread that owns the driver starts
MaxCalls == 1
\* transport faults (timeouts and serial errors) the driver meets
MaxFaults == 1
\* longest ramp explored on its own, in steps of 0.1 V
MaxRampSteps == 10
\* longest GETD response text
MaxReadingLen == 12
\* polls whose three readings are drawn freely; later polls see a sensor
\* that swings up and down
MaxJitterPolls == 1
\* polls beyond a full history window in the monitor specification
MaxExtraPolls == 2

(***************************************************************************)
(* Program constants.                                                      *)
(***************************************************************************)
MAX_POINTS == 20
OVERTEMP_THRESHOLD == 200000
NumChannels == 3
Channels == 0 .. (NumChannels - 1)
\* read_temperature clamps the reading to [20, 22] degrees
TempFloor == 20000
TempCeil == 22000
\* steps the random walk of read_temperature may take, within +-0.05 degrees
StepSize == 45
TempSteps == {-StepSize, StepSize}

VARIABLES
    \* ---- CathodeHeatingSubsystem ----
    messages_frame,     \* TRUE iff a message sink was given to the constructor
    numPS,              \* len(self.power_supplies)
    supply_ports,       \* for each supply of self.power_supplies, in list order,
                        \* the channel whose port it was opened on
    toggle_states,
    target_current_vars,
    ideal_cathode_emission_currents,
    predicted_emission_current_vars,
    predicted_grid_current_vars,
    predicted_heater_current_vars,
    predicted_temperature_vars,
    heater_voltage_vars,
    clamp_temperature_vars,
    overtemp_limit_vars,
    overtemp_status_vars,
    time_data,
    temperature_data,
    previous_temperature,
    now,                \* logical clock: number of poll cycles run
    pollScheduled,      \* parent.after(500, update_data) is pending
    ops,                \* number of operator events handled so far
    \* ---- what the last handler did ----
    all_readings,       \* every reading taken so far, per channel (history variable)
    previous_status,    \* overtemp_status_vars before the last poll (history variable)
    handler,            \* [op, ch] of the last handler run
    sent,               \* commands the last handler wrote, per power supply
    received,           \* lines the last handler read, per power supply
    log,                \* log events / dialogs the last handler emitted
    raised              \* exception that escaped the last handler

subsysVars == << messages_frame, numPS, supply_ports, toggle_states, target_current_vars,
                 ideal_cathode_emission_currents,
                 predicted_emission_current_vars, predicted_grid_current_vars,
                 predicted_heater_current_vars, predicted_temperature_vars,
                 heater_voltage_vars, clamp_temperature_vars,
                 overtemp_limit_vars, overtemp_status_vars, time_data,
                 temperature_data, previous_temperature, now, pollScheduled,
                 ops, all_readings, previous_status, handler, sent, received, log,
                 raised >>

VARIABLES
    \* ---- one PowerSupply9014 and the threads that call it ----
    debug_mode,
    is_open,            \* the serial port self.ser is open
    pc,                 \* where each thread stands
    call,               \* the operation each thread is inside: [op, cmd, voltage]
    wire,               \* commands written to the port the supply has not taken yet
    rx,                 \* response lines waiting in the port's input buffer, each
                        \* with the thread whose command it answers
    got,                \* per thread, whose command the line it last read answered
                        \* (history variable)
    outcome,            \* per thread, what its last driver operation came to
    current_voltage,    \* per ramp thread, a double
    target_voltage,     \* per ramp thread, in thousandths of a volt
    ramp_rate,          \* per ramp thread, in thousandths of a volt per second
    commanded,          \* per ramp thread, the voltages it has passed to
                        \* set_voltage (history variable)
    ramp_result,        \* per ramp thread, what the ramp came to
    ramps,              \* ramp threads started so far
    calls,              \* operations the calling thread has started so far
    faults,             \* transport faults so far
    \* ---- one call of get_voltage_current_mode ----
    getd_io,            \* outcome of the serial exchange the call will meet
    reading_result      \* what the call came to

driverVars == << debug_mode, is_open, pc, call, wire, rx, got, outcome, current_voltage,
                 target_voltage, ramp_rate, commanded, ramp_result, ramps, calls,
                 faults >>

parseVars == << getd_io, reading_result >>

(***************************************************************************)
(* Texts.                                                                  *)
(***************************************************************************)
Whitespace == {"CR", "LF", "SP"}

RECURSIVE LStrip(_)
LStrip(s) == IF s # << >> /\ Head(s) \in Whitespace THEN LStrip(Tail(s)) ELSE s

RECURSIVE RStrip(_)
RStrip(s) ==
    IF s # << >> /\ s[Len(s)] \in Whitespace
    THEN RStrip(SubSeq(s, 1, Len(s) - 1))
    ELSE s

\* str.strip()
Strip(s) == RStrip(LStrip(s))

TextOK == << "O", "K" >>

\* an optional text: Python's None or a str
None == [some |-> FALSE, text |-> << >>]
Some(t) == [some |-> TRUE, text |-> t]
\* Python truthiness of an optional text
Truthy(r) == r.some /\ r.text # << >>

DigitChars == << "0", "1", "2", "3", "4", "5", "6", "7", "8", "9" >>

RECURSIVE Digits(_)
\* decimal digits of a natural number
Digits(n) == IF n < 10 THEN << DigitChars[n + 1] >>
             ELSE Digits(n \div 10) \o << DigitChars[(n % 10) + 1] >>

\* the element of a one-element set; { e(v) : v \in {x} } computes x once
The(S) == CHOOSE x \in S : TRUE

RECURSIVE ZeroPad(_, _)
ZeroPad(ds, width) == IF Len(ds) >= width THEN ds ELSE ZeroPad(<< "0" >> \o ds, width)

\* f"{n:04d}": the sign counts in the width
Format04d(n) ==
    The({ IF n < 0 THEN << "-" >> \o ZeroPad(ds, 3) ELSE ZeroPad(ds, 4) :
            ds \in { Digits(IF n < 0 THEN -n ELSE n) } })

Min2(a, b) == IF a < b THEN a ELSE b
Max2(a, b) == IF a > b THEN a ELSE b

(***************************************************************************)
(* Python floats.  The driver computes its voltages with IEEE-754 doubles. *)
(* A double x >= 0 of the sizes met here is held exactly, as the natural   *)
(* number x * 2^FracBits; a natural number is held as the sequence of its  *)
(* digits in base LimbBase, lowest first, without leading zeros.  Every    *)
(* arithmetic result is rounded to 53 significant bits, ties to the even   *)
(* neighbour, as the hardware rounds it.                                   *)
(***************************************************************************)
LimbBits == 14
LimbBase == 2 ^ LimbBits
FracLimbs == 5
FracBits == FracLimbs * LimbBits
MantissaBits == 53

Zeros(k) == [i \in 1 .. k |-> 0]

RECURSIVE Trim(_)
Trim(a) == IF a = << >> THEN a
           ELSE IF a[Len(a)] # 0 THEN a
           ELSE Trim(SubSeq(a, 1, Len(a) - 1))

RECURSIVE LimbsOf(_)
LimbsOf(n) == IF n = 0 THEN << >> ELSE << n % LimbBase >> \o LimbsOf(n \div LimbBase)

RECURSIVE NatOf(_)
NatOf(a) == IF a = << >> THEN 0 ELSE Head(a) + LimbBase * NatOf(Tail(a))

LimbAt(a, k) == IF k >= 1 /\ k <= Len(a) THEN a[k] ELSE 0

RECURSIVE AddFrom(_, _, _, _)
AddFrom(a, b, k, carry) ==
    IF k > Len(a) /\ k > Len(b) THEN (IF carry = 0 THEN << >> ELSE << carry >>)
    ELSE << (LimbAt(a, k) + LimbAt(b, k) + carry) % LimbBase >>
         \o AddFrom(a, b, k + 1, (LimbAt(a, k) + LimbAt(b, k) + carry) \div LimbBase)

Add(a, b) == AddFrom(a, b, 1, 0)

\* a * c for a small natural number c
RECURSIVE TimesFrom(_, _, _, _)
TimesFrom(a, c, k, carry) ==
    IF k > Len(a) THEN LimbsOf(carry)
    ELSE << (a[k] * c + carry) % LimbBase >>
         \o TimesFrom(a, c, k + 1, (a[k] * c + carry) \div LimbBase)

Times(a, c) == Trim(TimesFrom(a, c, 1, 0))

\* a divided by a small natural number c, from the highest digit down
RECURSIVE DivFrom(_, _, _, _)
DivFrom(a, c, k, rem) ==
    IF k = 0 THEN [q |-> << >>, rem |-> rem]
    ELSE The({ The({ [q |-> Append(rest.q, r \div c), rem |-> rest.rem] :
                       rest \in { DivFrom(a, c, k - 1, r % c) } }) :
                 r \in { rem * LimbBase + a[k] } })

Div(a, c) == The({ DivFrom(v, c, Len(v), 0) : v \in {a} })

\* a < b
RECURSIVE LessFrom(_, _, _)
LessFrom(a, b, k) ==
    IF k = 0 THEN FALSE
    ELSE IF LimbAt(a, k) # LimbAt(b, k) THEN LimbAt(a, k) < LimbAt(b, k)
    ELSE LessFrom(a, b, k - 1)

Less(a, b) == LessFrom(a, b, Max2(Len(a), Len(b)))

RECURSIVE BitLenOfLimb(_)
BitLenOfLimb(n) == IF n = 0 THEN 0 ELSE 1 + BitLenOfLimb(n \div 2)

\* number of significant bits of a, a without leading zeros
BitLen(a) == IF a = << >> THEN 0
             ELSE LimbBits * (Len(a) - 1) + BitLenOfLimb(a[Len(a)])

\* bit k of a, the lowest bit being bit 0
BitOf(a, k) == (LimbAt(a, (k \div LimbBits) + 1) \div (2 ^ (k % LimbBits))) % 2

\* some bit of a below bit k is set
AnyBitBelow(a, k) ==
    \/ \E j \in 1 .. (k \div LimbBits) : LimbAt(a, j) # 0
    \/ LimbAt(a, (k \div LimbBits) + 1) % (2 ^ (k % LimbBits)) # 0

\* a with the bits below bit k cleared
ClearedBelow(a, k) ==
    [j \in 1 .. Len(a) |->
        IF j <= k \div LimbBits THEN 0
        ELSE IF j = (k \div LimbBits) + 1 THEN a[j] - (a[j] % (2 ^ (k % LimbBits)))
        ELSE a[j]]

\* 2^k
PowerOfTwo(k) == Zeros(k \div LimbBits) \o << 2 ^ (k % LimbBits) >>

\* a rounded to 53 significant bits, ties to even; `sticky` says the exact
\* value lies above a by less than one unit of a
RoundedFrom(a, sticky) ==
    LET s == BitLen(a) - MantissaBits
        up == /\ BitOf(a, s - 1) = 1
              /\ (sticky \/ AnyBitBelow(a, s - 1) \/ BitOf(a, s) = 1)
    IN  IF s <= 0 THEN a
        ELSE IF up THEN Add(ClearedBelow(a, s), PowerOfTwo(s))
        ELSE Trim(ClearedBelow(a, s))

Rounded(a) == The({ RoundedFrom(v, FALSE) : v \in {a} })

\* the double nearest to the decimal d / 1000, d a natural number: what
\* Python makes of a literal and of float(text)
FloatOf(d) ==
    The({ SubSeq(x, 2, Len(x)) :
            x \in { RoundedFrom(Trim(scaled.q), scaled.rem # 0) :
                      scaled \in { Div(Zeros(FracLimbs + 1) \o LimbsOf(d), 1000) } } })

\* int(x) of a double x >= 0
Truncated(x) == NatOf(SubSeq(x, FracLimbs + 1, Len(x)))

FloatAdd(x, y) == Rounded(Add(x, y))
FloatTimes(x, c) == Rounded(Times(x, c))
FloatMin(x, y) == The({ IF Less(b, a) THEN b ELSE a : a \in {x}, b \in {y} })

\* a Python float: its sign and its magnitude
Signed(neg, mag) == [neg |-> neg, mag |-> mag]
Positive(mag) == Signed(FALSE, mag)
\* the float Python holds for the decimal v / 1000, by conversion
Converted(v) == IF v < 0 THEN Signed(TRUE, FloatOf(-v)) ELSE Positive(FloatOf(v))

\* int(x * 100): the product is rounded as a double, then truncated toward zero
IntTimes100(x) ==
    The({ IF x.neg THEN -Truncated(product) ELSE Truncated(product) :
            product \in { FloatTimes(x.mag, 100) } })

(***************************************************************************)
(* The ES440 cathode models (instrumentctl/ES440_cathode.py), known here   *)
(* only by their contract: the emission model's y-domain and the points    *)
(* the interpolations map.                                                 *)
(***************************************************************************)
EmissionModelMin == 1000
EmissionModelMax == 1000000
ModelPoints ==
    { [emission |-> 100000, heater_current |-> 3000, heater_voltage |-> 5000,
       temperature_K |-> 2000000],
      [emission |-> 50000, heater_current |-> 2755, heater_voltage |-> 4506,
       temperature_K |-> 1900000] }
ModelPoint(ideal) == CHOOSE p \in ModelPoints : p.emission = ideal

\* the inverse voltage model and the models fed from its heater current, by
\* contract: the points of ModelPoints, and a voltage whose heater current
\* has no emission current inside the emission model's range
ManualPoints ==
    ModelPoints \cup
    { [emission |-> 2000000, heater_current |-> 4200, heater_voltage |-> 9000,
       temperature_K |-> 2400000] }
ManualPoint(voltage) == CHOOSE p \in ManualPoints : p.heater_voltage = voltage

\* the x-range of the voltage model update_predictions_from_voltage builds,
\* and its check of the interpolated heater current against it
VoltageModelMin == 500
VoltageModelMax == 4000
HeaterCurrentOutOfRange(heater_current) ==
    ~(VoltageModelMin <= heater_current /\ heater_current <= VoltageModelMax)

\* voltages the operator can give the dialog
ManualVoltages == { p.heater_voltage : p \in ManualPoints }

\* the setpoints the subsystem passes to the driver, with their floats and
\* the fields set_voltage and set_current format for them, computed once
SetpointValues ==
    {0} \cup { p.heater_voltage : p \in ManualPoints }
        \cup { p.heater_current : p \in ManualPoints }
SetpointFloats == { << v, Converted(v) >> : v \in SetpointValues }
SetpointFields == { << t[2], Format04d(IntTimes100(t[2])) >> : t \in SetpointFloats }

\* the float Python holds for the decimal v / 1000
PyFloat(v) ==
    IF v \in SetpointValues THEN (CHOOSE t \in SetpointFloats : t[1] = v)[2]
    ELSE Converted(v)

\* f"{formatted:04d}" of int(x * 100)
MagnitudeField(x) ==
    The({ IF \E t \in SetpointFields : t[1] = f
          THEN (CHOOSE t \in SetpointFields : t[1] = f)[2]
          ELSE Format04d(IntTimes100(f)) : f \in {x} })

(***************************************************************************)
(* PowerSupply9014: one call of an operation, given the outcome `io` of    *)
(* the serial exchange.  io.kind is "line" (readline returned io.raw; an   *)
(* empty raw is a read timeout), "write_error" or "read_error" (the serial *)
(* layer raised SerialException in write / in readline).  A result records *)
(* the return value, the commands written to the port, the lines read from *)
(* it, the messages logged and the exception that escapes the call.        *)
(***************************************************************************)
\* log_message of the driver: without a message sink it evaluates
\* self.parent, an attribute the driver never sets
DriverLogRaises(mf) == ~mf

MockResponse(command) == << "Mock response based on " >> \o command

Result(ret, wrote, read, logs, exc) ==
    [ret |-> ret, wrote |-> wrote, read |-> read, logs |-> logs, exc |-> exc]

\* the two `except` clauses of send_command: log the fault and return None
FaultLogged(mf, wrote, read, fault) ==
    IF DriverLogRaises(mf) THEN Result(None, wrote, read, << >>, "AttributeError")
    ELSE Result(None, wrote, read, << fault >>, "none")

SendCommand(dbg, mf, command, io) ==
    IF dbg THEN Result(Some(MockResponse(command)), << >>, << >>, << >>, "none")
    ELSE IF io.kind = "write_error"
    THEN FaultLogged(mf, << >>, << >>, "Serial error")
    ELSE IF io.kind = "read_error"
    THEN FaultLogged(mf, << command >>, << >>, "Serial error")
    ELSE IF Strip(io.raw) = << >>
    THEN FaultLogged(mf, << command >>, << io.raw >>, "Error processing response")
    ELSE Result(Some(Strip(io.raw)), << command >>, << io.raw >>, << >>, "none")

\* `response and response.strip() == "OK"`
Acknowledged(response) == Truthy(response) /\ Strip(response.text) = TextOK

\* the tail shared by set_voltage and set_current
SetResult(mf, r, failure) ==
    IF r.exc # "none" THEN Result(FALSE, r.wrote, r.read, r.logs, r.exc)
    ELSE IF Acknowledged(r.ret) THEN Result(TRUE, r.wrote, r.read, r.logs, "none")
    ELSE IF DriverLogRaises(mf)
    THEN Result(FALSE, r.wrote, r.read, r.logs, "AttributeError")
    ELSE Result(FALSE, r.wrote, r.read, Append(r.logs, failure), "none")

VoltCommand(preset, voltage) ==
    << "V", "O", "L", "T", "SP" >> \o Digits(preset) \o MagnitudeField(voltage)

CurrCommand(preset, current) ==
    << "C", "U", "R", "R", "SP" >> \o Digits(preset) \o MagnitudeField(current)

SetVoltage(dbg, mf, preset, voltage, io) ==
    SetResult(mf, SendCommand(dbg, mf, VoltCommand(preset, voltage), io),
              "Error setting voltage")

SetCurrent(dbg, mf, preset, current, io) ==
    SetResult(mf, SendCommand(dbg, mf, CurrCommand(preset, current), io),
              "Error setting current")

SoutCommand(state) == << "S", "O", "U", "T" >> \o Digits(state)

\* set_output returns send_command's value as it is
SetOutput(dbg, mf, state, io) == SendCommand(dbg, mf, SoutCommand(state), io)

(***************************************************************************)
(* Outcomes of a serial exchange the device and the line can produce.      *)
(***************************************************************************)
RawOK == << "O", "K", "CR", "LF" >>
RawErr == << "E", "R", "R", "CR", "LF" >>
RawBlank == << "CR", "LF" >>
RawLines == { RawOK, << "SP" >> \o RawOK, RawErr, RawBlank, << >> }

IoOutcomes == [kind : {"line"}, raw : RawLines]
              \cup [kind : {"write_error", "read_error"}, raw : {<< >>}]

(***************************************************************************)
(* Display values.  A display variable holds a text: a number printed with *)
(* `dec` decimals (val is the number in units of 10^-dec), or "N/A"        *)
(* (dec = -1).                                                             *)
(***************************************************************************)
Shown(v, d) == [val |-> v, dec |-> d]
InitialText == Shown(0, 1)      \* '0.0'
ZeroText == Shown(0, 2)         \* '0.00'
NAText == Shown(0, -1)          \* "N/A"

\* round v / unit to the nearest integer, ties to even
RoundDiv(v, unit) ==
    LET q == v \div unit
        r == v % unit
    IN  IF 2 * r > unit \/ (2 * r = unit /\ q % 2 = 1) THEN q + 1 ELSE q

\* f"{x:.2f}" and f"{x:.0f}" of a value in thousandths
Format2f(v) == Shown(RoundDiv(v, 10), 2)
Format0f(v) == Shown(RoundDiv(v, 1000), 0)

\* texts the operator can leave in the target entry field
Entry(v) == [valid |-> TRUE, value |-> v]
InvalidEntry == [valid |-> FALSE, value |-> 0]
TargetEntries == { Entry(0), Entry(72000), Entry(36000), Entry(72),
                   Entry(7200000), InvalidEntry }
\* texts the operator can leave in the overtemperature limit field
LimitEntries == { Entry(20000), Entry(20045), InvalidEntry }
\* the ones explored together with the setpoint handlers
SubsystemLimitEntries == { Entry(19000), InvalidEntry }

\* outcomes of a serial exchange explored for the subsystem's handlers
SubsystemIo == { [kind |-> "line", raw |-> RawOK], [kind |-> "line", raw |-> RawErr],
                 [kind |-> "line", raw |-> << >>] }

Event(m, i) == [msg |-> m, ch |-> i]
Events(ms, i) == [k \in 1 .. Len(ms) |-> Event(ms[k], i)]
NoCommands == [j \in Channels |-> << >>]

(***************************************************************************)
(* Construction: the state of CathodeHeatingSubsystem.__init__ before its  *)
(* last statement, the first call of update_data.                          *)
(***************************************************************************)
NumPSChoices == {0, 2, 3}

\* initialize_power_supplies goes through the ports in order and appends the
\* supplies it could open: the lists of n supplies
PortLists(n) ==
    { s \in [1 .. n -> Channels] : \A a \in 1 .. n : \A b \in 1 .. n : a < b => s[a] < s[b] }

SubsystemInit ==
    /\ messages_frame \in BOOLEAN
    /\ numPS \in NumPSChoices
    /\ supply_ports \in PortLists(numPS)
    /\ toggle_states = [i \in Channels |-> FALSE]
    /\ target_current_vars = [i \in Channels |-> InitialText]
    /\ ideal_cathode_emission_currents = [i \in Channels |-> 0]
    /\ predicted_emission_current_vars = [i \in Channels |-> InitialText]
    /\ predicted_grid_current_vars = [i \in Channels |-> InitialText]
    /\ predicted_heater_current_vars = [i \in Channels |-> InitialText]
    /\ predicted_temperature_vars = [i \in Channels |-> InitialText]
    /\ heater_voltage_vars = [i \in Channels |-> InitialText]
    /\ clamp_temperature_vars = [i \in Channels |-> InitialText]
    /\ overtemp_limit_vars = [i \in Channels |-> OVERTEMP_THRESHOLD]
    /\ overtemp_status_vars = [i \in Channels |-> "Normal"]
    /\ time_data = [i \in Channels |-> << >>]
    /\ temperature_data = [i \in Channels |-> << >>]
    /\ previous_temperature = TempFloor
    /\ now = 0
    /\ pollScheduled = FALSE
    /\ ops = 0
    /\ all_readings = [i \in Channels |-> << >>]
    /\ previous_status = [i \in Channels |-> "Normal"]
    /\ handler = [op |-> "__init__", ch |-> -1]
    /\ sent = NoCommands
    /\ received = NoCommands
    /\ log = << >>
    /\ raised = "none"

\* the Tk main loop runs, and with it the operator's handlers, once the
\* constructor has returned
Constructed == now > 0

power_supplies_initialized == numPS > 0

(***************************************************************************)
(* The safety poll: update_data.                                           *)
(***************************************************************************)

\* read_temperature: one step of the walk, clamped
ReadTemperature(previous, step) == Max2(TempFloor, Min2(previous + step, TempCeil))

\* the readings of one cycle, channel after channel, from one shared walk
Readings(previous, steps) ==
    LET r[i \in Channels] ==
            ReadTemperature(IF i = 0 THEN previous ELSE r[i - 1], steps[i])
    IN  r

LastN(s, n) == SubSeq(s, Max2(1, Len(s) - n + 1), Len(s))

\* a trim that keeps the oldest entries
TrimHistoryOldest(times, temps) ==
    IF Len(times) > MAX_POINTS
    THEN [times |-> SubSeq(times, 1, MAX_POINTS), temps |-> SubSeq(temps, 1, MAX_POINTS)]
    ELSE [times |-> times, temps |-> temps]

\* the two arrays of a channel after appending and trimming
TrimHistory(times, temps) ==
    IF Len(times) > MAX_POINTS
    THEN [times |-> LastN(times, MAX_POINTS), temps |-> LastN(temps, MAX_POINTS)]
    ELSE [times |-> times, temps |-> temps]

\* a comparison that also trips at the limit
IsOvertempInclusive(temperature, limit) == temperature >= limit
\* a comparison against the default threshold instead of the configured limit
IsOvertempDefault(temperature, limit) == temperature > OVERTEMP_THRESHOLD

IsOvertemp(temperature, limit) == temperature > limit

\* a loop that stops one channel short
PolledChannelsShort == 0 .. (NumChannels - 2)

\* the channels one cycle goes through
PolledChannels == Channels

\* the sensor's walk: free during the first MaxJitterPolls cycles, then
\* swinging: up in one cycle, down in the next
SteadySteps == { [i \in Channels |-> IF now % 2 = 0 THEN StepSize ELSE -StepSize] }
StepChoices == IF now < MaxJitterPolls THEN [Channels -> TempSteps] ELSE SteadySteps

RECURSIVE OvertempEvents(_, _, _)
OvertempEvents(i, r, limits) ==
    IF i \notin PolledChannels THEN << >>
    ELSE (IF IsOvertemp(r[i], limits[i]) THEN << Event("OVERTEMP!", i) >> ELSE << >>)
         \o OvertempEvents(i + 1, r, limits)

\* a poll that switches the output flag of an overtemperature channel off
PollFrameTripping ==
    /\ toggle_states' = [i \in Channels |->
           toggle_states[i] /\ overtemp_status_vars'[i] # "OVERTEMP!"]
    /\ UNCHANGED << messages_frame, numPS, supply_ports, target_current_vars,
                    ideal_cathode_emission_currents,
                    predicted_emission_current_vars, predicted_grid_current_vars,
                    predicted_heater_current_vars, predicted_temperature_vars,
                    heater_voltage_vars, overtemp_limit_vars, ops >>

\* what update_data never assigns
PollFrame ==
    UNCHANGED << messages_frame, numPS, supply_ports, toggle_states, target_current_vars,
                 ideal_cathode_emission_currents,
                 predicted_emission_current_vars, predicted_grid_current_vars,
                 predicted_heater_current_vars, predicted_temperature_vars,
                 heater_voltage_vars, overtemp_limit_vars, ops >>

UpdateData(choices) ==
    /\ now = 0 \/ pollScheduled
    /\ \E steps \in choices :
        LET r == Readings(previous_temperature, steps)
            h == [i \in Channels |->
                    TrimHistory(Append(time_data[i], now + 1),
                                Append(temperature_data[i], r[i]))]
        IN  /\ time_data' = [i \in Channels |->
                    IF i \in PolledChannels THEN h[i].times ELSE time_data[i]]
            /\ temperature_data' = [i \in Channels |->
                    IF i \in PolledChannels THEN h[i].temps ELSE temperature_data[i]]
            /\ clamp_temperature_vars' = [i \in Channels |->
                    IF i \in PolledChannels THEN Format2f(r[i])
                    ELSE clamp_temperature_vars[i]]
            /\ overtemp_status_vars' = [i \in Channels |->
                    IF i \notin PolledChannels THEN overtemp_status_vars[i]
                    ELSE IF IsOvertemp(r[i], overtemp_limit_vars[i])
                         THEN "OVERTEMP!" ELSE "OFF"]
            /\ all_readings' = [i \in Channels |-> Append(all_readings[i], r[i])]
            /\ previous_status' = overtemp_status_vars
            /\ previous_temperature' = r[NumChannels - 1]
            /\ log' = OvertempEvents(0, r, overtemp_limit_vars)
    /\ now' = now + 1
    /\ pollScheduled' = TRUE
    /\ handler' = [op |-> "update_data", ch |-> -1]
    /\ sent' = NoCommands
    /\ received' = NoCommands
    /\ raised' = "none"
    /\ PollFrame

(***************************************************************************)
(* set_overtemp_limit                                                      *)
(***************************************************************************)
SetOvertempLimit(i, entry) ==
    /\ Constructed
    /\ ops' = ops + 1
    /\ overtemp_limit_vars' =
          IF entry.valid THEN [overtemp_limit_vars EXCEPT ![i] = entry.value]
          ELSE overtemp_limit_vars
    /\ log' = << Event(IF entry.valid THEN "Set overtemperature limit"
                       ELSE "Invalid input for overtemperature limit", i) >>
    /\ handler' = [op |-> "set_overtemp_limit", ch |-> i]
    /\ sent' = NoCommands
    /\ received' = NoCommands
    /\ raised' = "none"
    /\ UNCHANGED << messages_frame, numPS, supply_ports, toggle_states, target_current_vars,
                    ideal_cathode_emission_currents,
                    predicted_emission_current_vars, predicted_grid_current_vars,
                    predicted_heater_current_vars, predicted_temperature_vars,
                    heater_voltage_vars, clamp_temperature_vars,
                    overtemp_status_vars, time_data, temperature_data,
                    previous_temperature, now, pollScheduled, all_readings, previous_status >>

(***************************************************************************)
(* toggle_output                                                           *)
(***************************************************************************)
\* `if response:` on the value set_output returned
OutputAccepted(response) == Truthy(response)

ToggleOutput(i, io) ==
    /\ Constructed
    /\ ops' = ops + 1
    /\ handler' = [op |-> "toggle_output", ch |-> i]
    /\ IF ~power_supplies_initialized \/ numPS = 0
       THEN /\ log' = << Event("Power supplies not properly initialized", i) >>
            /\ sent' = NoCommands
            /\ received' = NoCommands
            /\ raised' = "none"
            /\ UNCHANGED toggle_states
       ELSE /\ toggle_states' = [toggle_states EXCEPT ![i] = ~toggle_states[i]]
            /\ IF i >= numPS
               THEN \* self.power_supplies[index] is out of range
                    /\ log' = << >>
                    /\ sent' = NoCommands
                    /\ received' = NoCommands
                    /\ raised' = "IndexError"
               ELSE LET state == IF toggle_states'[i] THEN 1 ELSE 0
                        r == SetOutput(FALSE, messages_frame, state, io)
                    IN  /\ sent' = [NoCommands EXCEPT ![i] = r.wrote]
                        /\ received' = [NoCommands EXCEPT ![i] = r.read]
                        /\ raised' = r.exc
                        /\ log' = Events(r.logs, i) \o
                             (IF r.exc # "none" THEN << >>
                              ELSE IF OutputAccepted(r.ret)
                              THEN << Event(IF state = 1 THEN "output ON"
                                            ELSE "output OFF", i) >>
                              ELSE << Event("No response: toggling", i) >>)
    /\ UNCHANGED << messages_frame, numPS, supply_ports, target_current_vars,
                    ideal_cathode_emission_currents,
                    predicted_emission_current_vars, predicted_grid_current_vars,
                    predicted_heater_current_vars, predicted_temperature_vars,
                    heater_voltage_vars, clamp_temperature_vars,
                    overtemp_limit_vars, overtemp_status_vars, time_data,
                    temperature_data, previous_temperature, now, pollScheduled,
                    all_readings, previous_status >>

(***************************************************************************)
(* set_target_current and reset_power_supply.  An outcome names what the   *)
(* handler leaves in the five derived display variables of the channel     *)
(* ("keep": untouched), the commands it wrote, its log and the exception   *)
(* that escaped it.                                                        *)
(***************************************************************************)
Derived(em, grid, hc, hv, temp) ==
    [emission |-> em, grid |-> grid, heater_current |-> hc,
     heater_voltage |-> hv, temperature |-> temp]
AllZero == Derived(ZeroText, ZeroText, ZeroText, ZeroText, ZeroText)

Outcome(set, fields, wrote, read, logs, exc) ==
    [set |-> set, fields |-> fields, wrote |-> wrote, read |-> read,
     logs |-> logs, exc |-> exc]

\* `if self.power_supplies and len(self.power_supplies) > index`
HasPowerSupply(i) == numPS > 0 /\ numPS > i

\* a handler that does not look at the output toggle
RejectedNever(i) == FALSE

\* set_target_current's first statement
Rejected(i) == toggle_states[i]

ResetPowerSupply(i, io) ==
    IF HasPowerSupply(i)
    THEN \* set_voltage(1, 0.0), then the call of set_votlage, a method the
         \* driver does not have
         LET r == SetVoltage(FALSE, messages_frame, 1, PyFloat(0), io)
         IN  Outcome(FALSE, AllZero, r.wrote, r.read, r.logs, "AttributeError")
    ELSE Outcome(TRUE, AllZero, << >>, << >>, << >>, "none")

\* target / 0.72
IdealEmission(target) == (target * 100) \div 72

EmissionOutOfRange(ideal) == ideal < EmissionModelMin \/ ideal > EmissionModelMax

ApplySetpoint(i, ideal, io1, io2) ==
    LET p == ModelPoint(ideal)
        shown == Derived(Format2f(ideal), Format2f((28 * ideal) \div 100),
                         Format2f(p.heater_current), Format2f(p.heater_voltage),
                         Format0f(p.temperature_K - 273150))
        calc == << "Calculated ideal emission current", "Interpolated heater current",
                   "Interpolated heater voltage" >>
        r1 == SetVoltage(FALSE, messages_frame, 1, PyFloat(p.heater_voltage), io1)
        r2 == SetCurrent(FALSE, messages_frame, 1, PyFloat(p.heater_current), io2)
    IN  IF ~HasPowerSupply(i)
        THEN Outcome(TRUE, shown, << >>, << >>, Append(calc, "Set power supply"), "none")
        ELSE IF r1.exc # "none"
        THEN Outcome(FALSE, shown, r1.wrote, r1.read, calc \o r1.logs, r1.exc)
        ELSE IF r2.exc # "none"
        THEN Outcome(FALSE, shown, r1.wrote \o r2.wrote, r1.read \o r2.read,
                     calc \o r1.logs \o r2.logs, r2.exc)
        ELSE Outcome(TRUE, shown, r1.wrote \o r2.wrote, r1.read \o r2.read,
                     Append(calc \o r1.logs \o r2.logs, "Set power supply"), "none")

\* an out-of-range branch that marks only the fields derived from the emission
OutOfRangeFieldsPartial == Derived(NAText, NAText, ZeroText, ZeroText, NAText)

\* what the out-of-range branch leaves in the five display variables
OutOfRangeFields == AllZero

SetTargetCurrentOutcome(i, entry, io1, io2) ==
    IF Rejected(i)
    THEN Outcome(FALSE, AllZero, << >>, << >>, << "showwarning" >>, "none")
    ELSE IF ~entry.valid
    THEN Outcome(FALSE, AllZero, << >>, << >>,
                 << "Invalid input for target current" >>, "none")
    ELSE LET ideal == IdealEmission(entry.value)
         IN  IF ideal = 0
             THEN LET r == ResetPowerSupply(i, io1)
                  IN  Outcome(r.set, r.fields, r.wrote, r.read,
                              << "Calculated ideal emission current" >> \o r.logs,
                              r.exc)
             ELSE IF EmissionOutOfRange(ideal)
             THEN Outcome(TRUE, OutOfRangeFields, << >>, << >>,
                          << "Calculated ideal emission current",
                             "Desired emission current is below the minimum range" >>,
                          "none")
             ELSE ApplySetpoint(i, ideal, io1, io2)

SetTargetCurrent(i, entry, io1, io2) ==
    /\ Constructed
    /\ ops' = ops + 1
    /\ \E o \in { SetTargetCurrentOutcome(i, entry, io1, io2) } :
           /\ predicted_emission_current_vars' =
                 IF o.set THEN [predicted_emission_current_vars EXCEPT ![i] = o.fields.emission]
                 ELSE predicted_emission_current_vars
           /\ predicted_grid_current_vars' =
                 IF o.set THEN [predicted_grid_current_vars EXCEPT ![i] = o.fields.grid]
                 ELSE predicted_grid_current_vars
           /\ predicted_heater_current_vars' =
                 IF o.set
                 THEN [predicted_heater_current_vars EXCEPT ![i] = o.fields.heater_current]
                 ELSE predicted_heater_current_vars
           /\ heater_voltage_vars' =
                 IF o.set THEN [heater_voltage_vars EXCEPT ![i] = o.fields.heater_voltage]
                 ELSE heater_voltage_vars
           /\ predicted_temperature_vars' =
                 IF o.set
                 THEN [predicted_temperature_vars EXCEPT ![i] = o.fields.temperature]
                 ELSE predicted_temperature_vars
           /\ sent' = [NoCommands EXCEPT ![i] = o.wrote]
           /\ received' = [NoCommands EXCEPT ![i] = o.read]
           /\ log' = Events(o.logs, i)
           /\ raised' = o.exc
    /\ handler' = [op |-> "set_target_current", ch |-> i]
    /\ UNCHANGED << messages_frame, numPS, supply_ports, toggle_states, target_current_vars,
                    ideal_cathode_emission_currents, clamp_temperature_vars,
                    overtemp_limit_vars, overtemp_status_vars, time_data,
                    temperature_data, previous_temperature, now, pollScheduled,
                    all_readings, previous_status >>

(***************************************************************************)
(* on_voltage_label_click and update_predictions_from_voltage: the         *)
(* operator enters a heater voltage by hand.                               *)
(***************************************************************************)
\* a handler that gives up the whole group
OutOfRangeMarksAll(hc, hv) == Derived(NAText, NAText, NAText, NAText, NAText)

\* the `except ValueError` of the dependent predictions: the three display
\* variables it sets, beside the heater current and voltage already shown
OutOfRangeMarks(hc, hv) == Derived(NAText, NAText, hc, hv, NAText)

\* update_predictions_from_voltage; `set` tells whether the dependent
\* predictions (emission, grid current, temperature) were reached
ManualVoltageOutcome(i, voltage, io1, io2) ==
    LET p == ManualPoint(voltage)
        hv == Format2f(voltage)
        hc == Format2f(p.heater_current)
        inrange == ~EmissionOutOfRange(p.emission)
        fields == IF inrange
                  THEN Derived(Format2f(p.emission), Format2f((28 * p.emission) \div 100),
                               hc, hv, Format0f(p.temperature_K - 273150))
                  ELSE OutOfRangeMarks(hc, hv)
        started == Derived(NAText, NAText, hc, hv, NAText)
        head == << "Interpolated heater current" >>
                \o (IF HeaterCurrentOutOfRange(p.heater_current)
                    THEN << "Warning: Heater current is out of the emission model's interpolation range." >>
                    ELSE << >>)
        tail == (IF inrange THEN << >>
                 ELSE << "Emission current is out of the interpolation range." >>)
                \o << "Manual voltage set", "Manual current set",
                      "Updated predictions based on manual voltage input." >>
        r1 == SetVoltage(FALSE, messages_frame, 1, PyFloat(voltage), io1)
        r2 == SetCurrent(FALSE, messages_frame, 1, PyFloat(p.heater_current), io2)
    IN  IF ~HasPowerSupply(i)
        THEN Outcome(TRUE, fields, << >>, << >>, head \o tail, "none")
        ELSE IF r1.exc # "none"
        THEN Outcome(FALSE, started, r1.wrote, r1.read, head \o r1.logs, r1.exc)
        ELSE IF r2.exc # "none"
        THEN Outcome(FALSE, started, r1.wrote \o r2.wrote, r1.read \o r2.read,
                     head \o r1.logs \o r2.logs, r2.exc)
        ELSE Outcome(TRUE, fields, r1.wrote \o r2.wrote, r1.read \o r2.read,
                     head \o r1.logs \o r2.logs \o tail, "none")

\* on_voltage_label_click with the dialog returning new_voltage
ManualVoltage(i, voltage, io1, io2) ==
    /\ Constructed
    /\ ops' = ops + 1
    /\ \E o \in { ManualVoltageOutcome(i, voltage, io1, io2) } :
           /\ heater_voltage_vars' =
                 [heater_voltage_vars EXCEPT ![i] = o.fields.heater_voltage]
           /\ predicted_heater_current_vars' =
                 [predicted_heater_current_vars EXCEPT ![i] = o.fields.heater_current]
           /\ predicted_emission_current_vars' =
                 IF o.set THEN [predicted_emission_current_vars EXCEPT ![i] = o.fields.emission]
                 ELSE predicted_emission_current_vars
           /\ predicted_grid_current_vars' =
                 IF o.set THEN [predicted_grid_current_vars EXCEPT ![i] = o.fields.grid]
                 ELSE predicted_grid_current_vars
           /\ predicted_temperature_vars' =
                 IF o.set
                 THEN [predicted_temperature_vars EXCEPT ![i] = o.fields.temperature]
                 ELSE predicted_temperature_vars
           /\ sent' = [NoCommands EXCEPT ![i] = o.wrote]
           /\ received' = [NoCommands EXCEPT ![i] = o.read]
           /\ log' = Events(o.logs, i)
           /\ raised' = o.exc
    /\ handler' = [op |-> "on_voltage_label_click", ch |-> i]
    /\ UNCHANGED << messages_frame, numPS, supply_ports, toggle_states, target_current_vars,
                    ideal_cathode_emission_currents, clamp_temperature_vars,
                    overtemp_limit_vars, overtemp_status_vars, time_data,
                    temperature_data, previous_temperature, now, pollScheduled,
                    all_readings, previous_status >>

\* on_voltage_label_click with the dialog cancelled (askfloat returns None)
ManualVoltageCancelled(i) ==
    /\ Constructed
    /\ ops' = ops + 1
    /\ handler' = [op |-> "on_voltage_label_click", ch |-> i]
    /\ sent' = NoCommands
    /\ received' = NoCommands
    /\ log' = << >>
    /\ raised' = "none"
    /\ UNCHANGED << messages_frame, numPS, supply_ports, toggle_states, target_current_vars,
                    ideal_cathode_emission_currents,
                    predicted_emission_current_vars, predicted_grid_current_vars,
                    predicted_heater_current_vars, predicted_temperature_vars,
                    heater_voltage_vars, clamp_temperature_vars,
                    overtemp_limit_vars, overtemp_status_vars, time_data,
                    temperature_data, previous_temperature, now, pollScheduled,
                    all_readings, previous_status >>

(***************************************************************************)
(* The subsystem: the operator's handlers and the poll timer, all run by   *)
(* the one Tk thread.  A handler draws an outcome for each serial exchange *)
(* it gets to; the exchanges it never starts are given the one outcome.    *)
(***************************************************************************)
\* serial exchanges toggle_output starts
ToggleExchanges(i) == IF numPS > 0 /\ i < numPS THEN 1 ELSE 0

\* serial exchanges set_target_current can start
SetTargetExchanges(i, e) ==
    IF Rejected(i) \/ ~e.valid \/ ~HasPowerSupply(i) THEN 0
    ELSE IF IdealEmission(e.value) = 0 THEN 1
    ELSE IF EmissionOutOfRange(IdealEmission(e.value)) THEN 0
    ELSE 2

IoChoices(exchanges, k) ==
    IF k <= exchanges THEN SubsystemIo ELSE { [kind |-> "line", raw |-> RawOK] }

(***************************************************************************)
(* get_voltage_current_mode.  Readings are in thousandths of a volt and of *)
(* an ampere.                                                              *)
(***************************************************************************)
GetdCommand == << "G", "E", "T", "D" >>

\* s[a:b] of Python, 0 <= a <= b
Slice(s, a, b) == SubSeq(s, a + 1, Min2(b, Len(s)))

\* float(s) succeeds; over the characters the model draws, the texts float
\* accepts are the non-empty digit strings
IsFloatText(s) == s # << >> /\ \A k \in 1 .. Len(s) : \E d \in 1 .. 10 : DigitChars[d] = s[k]

DigitValue(c) == (CHOOSE d \in 1 .. 10 : DigitChars[d] = c) - 1

RECURSIVE FloatValue(_)
FloatValue(s) == IF s = << >> THEN 0
                 ELSE 10 * FloatValue(SubSeq(s, 1, Len(s) - 1)) + DigitValue(s[Len(s)])

ReadingOf(v, c, m) == [voltage |-> v, current |-> c, mode |-> m]
Sentinel == ReadingOf(0, 0, "Err")
NoReading == ReadingOf(0, 0, "none")

Measured(done, ret, logs, exc) == [done |-> done, ret |-> ret, logs |-> logs, exc |-> exc]

\* the two places that log and return the sentinel
SentinelLogged(mf, logs, message) ==
    IF DriverLogRaises(mf) THEN Measured(TRUE, NoReading, logs, "AttributeError")
    ELSE Measured(TRUE, Sentinel, Append(logs, message), "none")

GetVoltageCurrentMode(dbg, mf, io) ==
    LET r == SendCommand(dbg, mf, GetdCommand, io)
        reading == Strip(r.ret.text)
        voltage == Slice(reading, 0, 5)
        current == Slice(reading, 5, 10)
    IN  IF r.exc # "none" THEN Measured(TRUE, NoReading, r.logs, r.exc)
        ELSE IF ~Truthy(r.ret)
        THEN SentinelLogged(mf, r.logs, "Failed to get display readings.")
        ELSE IF IsFloatText(voltage) /\ IsFloatText(current) /\ Len(reading) > 10
        THEN Measured(TRUE,
                      ReadingOf(FloatValue(voltage), FloatValue(current),
                                IF reading[11] = "0" THEN "CV Mode" ELSE "CC Mode"),
                      r.logs, "none")
        ELSE SentinelLogged(mf, r.logs, "Error parsing voltage/current/mode")

(***************************************************************************)
(* The threads on one driver.  ramp_voltage starts a thread that runs      *)
(* _ramp_voltage_thread; the thread that called it goes on calling the     *)
(* driver.  send_command is two steps on the port, write and readline,     *)
(* and takes no lock, so the steps of different threads interleave.  The   *)
(* supply answers the commands in the order it received them.              *)
(***************************************************************************)
Caller == 0
RampIds == 1 .. MaxRamps
Threads == {Caller} \cup RampIds
NoThread == -1

step_size == FloatOf(100)
\* ramp_rate=0.01
DefaultRate == 10
RampTargets == {100, 200}

NoCall == [op |-> "none", cmd |-> << >>, voltage |-> << >>]
NoOutcome == [op |-> "none", fault |-> "none", ret |-> FALSE, logs |-> << >>,
              exc |-> "none"]

ACall(op, cmd, voltage) == [op |-> op, cmd |-> cmd, voltage |-> voltage]

\* the operations the calling thread draws from
CallerCalls == { ACall("set_voltage", VoltCommand(1, PyFloat(5000)), << >>),
                 ACall("set_current", CurrCommand(1, PyFloat(1000)), << >>),
                 ACall("set_output", SoutCommand(1), << >>),
                 ACall("get_display_readings", GetdCommand, << >>) }

DeviceLines == { RawOK, RawErr }

WriteError == [kind |-> "write_error", raw |-> << >>]
ReadError == [kind |-> "read_error", raw |-> << >>]
Line(raw) == [kind |-> "line", raw |-> raw]

FailureText(op) == IF op = "set_voltage" THEN "Error setting voltage"
                   ELSE "Error setting current"

\* what the operation makes of the value send_command returned
OpResult(mf, op, r) ==
    IF op \in {"set_voltage", "set_current"} THEN SetResult(mf, r, FailureText(op))
    ELSE r

AnOutcome(op, fault, res, logs) ==
    [op |-> op, fault |-> fault, ret |-> res.ret, logs |-> logs, exc |-> res.exc]

RampActive(r) == pc[r] \in {"loop", "write", "read"}

\* the ramp thread after set_voltage came back with res
RampResume(r, c, fault, res) ==
    IF res.exc # "none"
    THEN /\ pc' = [pc EXCEPT ![r] = "crashed"]
         /\ outcome' = [outcome EXCEPT ![r] = AnOutcome(c.op, fault, res, res.logs)]
         /\ UNCHANGED << current_voltage, ramp_result >>
    ELSE IF res.ret
    THEN \* time.sleep(step_delay) raises ValueError on a negative delay
         /\ IF ramp_rate[r] < 0
            THEN /\ pc' = [pc EXCEPT ![r] = "crashed"]
                 /\ UNCHANGED current_voltage
            ELSE /\ pc' = [pc EXCEPT ![r] = "loop"]
                 /\ current_voltage' = [current_voltage EXCEPT ![r] = c.voltage]
         /\ outcome' = [outcome EXCEPT ![r] = AnOutcome(c.op, fault, res, res.logs)]
         /\ UNCHANGED ramp_result
    ELSE IF DriverLogRaises(messages_frame)
    THEN /\ pc' = [pc EXCEPT ![r] = "crashed"]
         /\ outcome' = [outcome EXCEPT ![r] =
                          [AnOutcome(c.op, fault, res, res.logs)
                             EXCEPT !.exc = "AttributeError"]]
         /\ UNCHANGED << current_voltage, ramp_result >>
    ELSE /\ pc' = [pc EXCEPT ![r] = "finished"]
         /\ ramp_result' = [ramp_result EXCEPT ![r] = "failed"]
         /\ outcome' = [outcome EXCEPT ![r] =
                          AnOutcome(c.op, fault, res,
                                    Append(res.logs, "Failed to set voltage"))]
         /\ UNCHANGED current_voltage

\* thread t leaves send_command with r, and the operation c it was in
Return(t, c, fault, r) ==
    LET res == OpResult(messages_frame, c.op, r)
    IN  IF t = Caller
        THEN /\ pc' = [pc EXCEPT ![t] = "idle"]
             /\ outcome' = [outcome EXCEPT ![t] = AnOutcome(c.op, fault, res, res.logs)]
             /\ UNCHANGED << current_voltage, ramp_result >>
        ELSE RampResume(t, c, fault, res)

\* the calling thread starts a driver operation
Call(c) ==
    /\ pc[Caller] = "idle"
    /\ calls' = calls + 1
    /\ call' = [call EXCEPT ![Caller] = c]
    /\ IF debug_mode
       THEN Return(Caller, c, "none", SendCommand(TRUE, messages_frame, c.cmd, Line(<< >>)))
       ELSE /\ pc' = [pc EXCEPT ![Caller] = "write"]
            /\ UNCHANGED << outcome, current_voltage, ramp_result >>
    /\ UNCHANGED << debug_mode, is_open, wire, rx, got, target_voltage, ramp_rate, commanded, ramps, faults >>
    /\ UNCHANGED << subsysVars, parseVars >>

\* ramp_voltage: a new thread, whatever ramps are running.  The thread
\* begins with step_delay = step_size / ramp_rate, a ZeroDivisionError when
\* the rate is zero.
RampVoltage(target, rate) ==
    /\ pc[Caller] = "idle"
    /\ ramps' = ramps + 1
    /\ pc' = [pc EXCEPT ![ramps + 1] = IF rate = 0 THEN "crashed" ELSE "loop"]
    /\ current_voltage' = [current_voltage EXCEPT ![ramps + 1] = << >>]
    /\ target_voltage' = [target_voltage EXCEPT ![ramps + 1] = target]
    /\ ramp_rate' = [ramp_rate EXCEPT ![ramps + 1] = rate]
    /\ UNCHANGED << debug_mode, is_open, call, wire, rx, got, outcome, commanded, ramp_result,
                    calls, faults >>
    /\ UNCHANGED << subsysVars, parseVars >>

\* the set_voltage call of one pass of the loop
RampStep(current, target) ==
    The({ ACall("set_voltage", VoltCommand(1, Positive(next_voltage)), next_voltage) :
            next_voltage \in { FloatMin(FloatAdd(current, step_size), target) } })

\* _ramp_voltage_thread at the head of its loop
RampLoop(r) ==
    /\ pc[r] = "loop"
    /\ \E target \in { Converted(target_voltage[r]) } :
         IF ~target.neg /\ Less(current_voltage[r], target.mag)
         THEN \E c \in { RampStep(current_voltage[r], target.mag) } :
                /\ call' = [call EXCEPT ![r] = c]
                /\ commanded' = [commanded EXCEPT ![r] = Append(@, c.voltage)]
                /\ IF debug_mode
                   THEN Return(r, c, "none",
                               SendCommand(TRUE, messages_frame, c.cmd, Line(<< >>)))
                   ELSE /\ pc' = [pc EXCEPT ![r] = "write"]
                        /\ UNCHANGED << outcome, current_voltage, ramp_result >>
         ELSE /\ IF DriverLogRaises(messages_frame)
                 THEN /\ pc' = [pc EXCEPT ![r] = "crashed"]
                      /\ UNCHANGED ramp_result
                 ELSE /\ pc' = [pc EXCEPT ![r] = "finished"]
                      /\ ramp_result' = [ramp_result EXCEPT ![r] = "reached"]
              /\ UNCHANGED << call, outcome, current_voltage, commanded >>
    /\ UNCHANGED << debug_mode, is_open, wire, rx, got, target_voltage, ramp_rate, ramps, calls,
                    faults >>
    /\ UNCHANGED << subsysVars, parseVars >>

\* self.ser.write
Write(t) ==
    /\ pc[t] = "write"
    /\ is_open
    /\ wire' = Append(wire, [cmd |-> call[t].cmd, by |-> t])
    /\ pc' = [pc EXCEPT ![t] = "read"]
    /\ UNCHANGED << debug_mode, is_open, call, rx, got, outcome, current_voltage,
                    target_voltage, ramp_rate, commanded, ramp_result, ramps, calls, faults >>
    /\ UNCHANGED << subsysVars, parseVars >>

\* self.ser.write raises SerialException
WriteFault(t) ==
    /\ pc[t] = "write"
    /\ faults' = faults + 1
    /\ Return(t, call[t], "write_error",
              SendCommand(FALSE, messages_frame, call[t].cmd, WriteError))
    /\ UNCHANGED << debug_mode, is_open, call, wire, rx, got, target_voltage, ramp_rate, commanded, ramps, calls >>
    /\ UNCHANGED << subsysVars, parseVars >>

\* the supply takes the oldest command and answers it
Device(line) ==
    /\ wire # << >>
    /\ wire' = Tail(wire)
    /\ rx' = Append(rx, [raw |-> line, by |-> Head(wire).by])
    /\ UNCHANGED << debug_mode, is_open, pc, call, got, outcome, current_voltage,
                    target_voltage, ramp_rate, commanded, ramp_result, ramps, calls, faults >>
    /\ UNCHANGED << subsysVars, parseVars >>

\* self.ser.readline returns the oldest line in the buffer
Read(t) ==
    /\ pc[t] = "read"
    /\ is_open
    /\ rx # << >>
    /\ rx' = Tail(rx)
    /\ got' = [got EXCEPT ![t] = Head(rx).by]
    /\ Return(t, call[t], "none",
              SendCommand(FALSE, messages_frame, call[t].cmd, Line(Head(rx).raw)))
    /\ UNCHANGED << debug_mode, is_open, call, wire, target_voltage, ramp_rate, commanded, ramps, calls, faults >>
    /\ UNCHANGED << subsysVars, parseVars >>

\* self.ser.readline returns nothing within the port's timeout
ReadTimeout(t) ==
    /\ pc[t] = "read"
    /\ rx = << >>
    /\ faults' = faults + 1
    /\ Return(t, call[t], "timeout",
              SendCommand(FALSE, messages_frame, call[t].cmd, Line(<< >>)))
    /\ UNCHANGED << debug_mode, is_open, call, wire, rx, got, target_voltage, ramp_rate, commanded, ramps, calls >>
    /\ UNCHANGED << subsysVars, parseVars >>

\* self.ser.readline raises SerialException
ReadFault(t) ==
    /\ pc[t] = "read"
    /\ faults' = faults + 1
    /\ Return(t, call[t], "read_error",
              SendCommand(FALSE, messages_frame, call[t].cmd, ReadError))
    /\ UNCHANGED << debug_mode, is_open, call, wire, rx, got, target_voltage, ramp_rate, commanded, ramps, calls >>
    /\ UNCHANGED << subsysVars, parseVars >>

\* close(): the calling thread closes the port; the driver keeps no flag
Close ==
    /\ pc[Caller] = "idle"
    /\ is_open
    /\ is_open' = FALSE
    /\ UNCHANGED << debug_mode, pc, call, wire, rx, got, outcome, current_voltage,
                    target_voltage, ramp_rate, commanded, ramp_result, ramps, calls,
                    faults >>
    /\ UNCHANGED << subsysVars, parseVars >>

\* self.ser.write on a closed port raises PortNotOpenError, a SerialException
WriteClosed(t) ==
    /\ pc[t] = "write"
    /\ ~is_open
    /\ Return(t, call[t], "write_error",
              SendCommand(FALSE, messages_frame, call[t].cmd, WriteError))
    /\ UNCHANGED << debug_mode, is_open, call, wire, rx, got, target_voltage, ramp_rate,
                    commanded, ramps, calls, faults >>
    /\ UNCHANGED << subsysVars, parseVars >>

\* self.ser.readline on a port closed since the command was written raises
\* SerialException
ReadClosed(t) ==
    /\ pc[t] = "read"
    /\ ~is_open
    /\ Return(t, call[t], "read_error",
              SendCommand(FALSE, messages_frame, call[t].cmd, ReadError))
    /\ UNCHANGED << debug_mode, is_open, call, wire, rx, got, target_voltage, ramp_rate,
                    commanded, ramps, calls, faults >>
    /\ UNCHANGED << subsysVars, parseVars >>

\* one call of get_voltage_current_mode, on the exchange it meets
ReadDisplay ==
    /\ ~reading_result.done
    /\ reading_result' = GetVoltageCurrentMode(debug_mode, messages_frame, getd_io)
    /\ UNCHANGED getd_io
    /\ UNCHANGED << subsysVars, driverVars >>

(***************************************************************************)
(* The specifications.                                                     *)
(***************************************************************************)
\* a driver no thread has called yet
DriverInit ==
    /\ is_open = TRUE
    /\ pc = [t \in Threads |-> IF t = Caller THEN "idle" ELSE "unborn"]
    /\ call = [t \in Threads |-> NoCall]
    /\ wire = << >>
    /\ rx = << >>
    /\ got = [t \in Threads |-> NoThread]
    /\ outcome = [t \in Threads |-> NoOutcome]
    /\ current_voltage = [r \in RampIds |-> << >>]
    /\ target_voltage = [r \in RampIds |-> 0]
    /\ ramp_rate = [r \in RampIds |-> 0]
    /\ commanded = [r \in RampIds |-> << >>]
    /\ ramp_result = [r \in RampIds |-> "none"]
    /\ ramps = 0
    /\ calls = 0
    /\ faults = 0

NoDisplayRead ==
    /\ getd_io = Line(<< >>)
    /\ reading_result = Measured(FALSE, NoReading, << >>, "none")

\* initialize_power_supplies constructs each driver without debug_mode
InitAnyPorts ==
    /\ SubsystemInit
    /\ DriverInit
    /\ debug_mode = FALSE
    /\ NoDisplayRead

\* the ports that failed to open, if any, are the last ones: each supply of
\* the list is on the port of the channel with its index
PortsAligned == \A k \in 1 .. numPS : supply_ports[k] = k - 1

Init == InitAnyPorts /\ PortsAligned

Next ==
    \/ /\ now < MaxPolls /\ UpdateData(SteadySteps)
       /\ UNCHANGED << driverVars, parseVars >>
    \/ /\ ops < MaxOps /\ \E i \in Channels, e \in SubsystemLimitEntries :
             SetOvertempLimit(i, e)
       /\ UNCHANGED << driverVars, parseVars >>
    \/ /\ ops < MaxOps /\ \E i \in Channels :
             \E io \in IoChoices(ToggleExchanges(i), 1) : ToggleOutput(i, io)
       /\ UNCHANGED << driverVars, parseVars >>
    \/ /\ ops < MaxOps /\ \E i \in Channels, e \in TargetEntries :
             \E io1 \in IoChoices(SetTargetExchanges(i, e), 1),
                io2 \in IoChoices(SetTargetExchanges(i, e), 2) :
                   SetTargetCurrent(i, e, io1, io2)
       /\ UNCHANGED << driverVars, parseVars >>

vars == << subsysVars, driverVars, parseVars >>

Spec == Init /\ [][Next]_vars

(***************************************************************************)
(* The safety monitor on its own, over more than a full history window:    *)
(* the poll timer and the operator changing the overtemperature limits.    *)
(***************************************************************************)
NextMonitor ==
    \/ /\ now < MAX_POINTS + MaxExtraPolls /\ UpdateData(StepChoices)
       /\ UNCHANGED << driverVars, parseVars >>
    \/ /\ ops < MaxLimitChanges /\ \E i \in Channels, e \in LimitEntries :
             SetOvertempLimit(i, e)
       /\ UNCHANGED << driverVars, parseVars >>

\* the nominal installation: a message sink and three power supplies
InitMonitor == Init /\ messages_frame /\ numPS = NumChannels

SpecMonitor == InitMonitor /\ [][NextMonitor]_vars

(***************************************************************************)
(* One driver used by the thread that owns it and by the ramp threads it   *)
(* started.                                                                *)
(***************************************************************************)
NextDriver ==
    \/ calls < MaxCalls /\ \E c \in CallerCalls : Call(c)
    \/ ramps < MaxRamps /\ \E target \in RampTargets : RampVoltage(target, DefaultRate)
    \/ \E r \in RampIds : RampLoop(r)
    \/ \E t \in Threads : Write(t)
    \/ faults < MaxFaults /\ \E t \in Threads : WriteFault(t)
    \/ \E line \in DeviceLines : Device(line)
    \/ \E t \in Threads : Read(t)
    \/ faults < MaxFaults /\ \E t \in Threads : ReadTimeout(t)
    \/ faults < MaxFaults /\ \E t \in Threads : ReadFault(t)

InitDriver ==
    /\ SubsystemInit
    /\ numPS = NumChannels
    /\ DriverInit
    /\ debug_mode \in BOOLEAN
    /\ NoDisplayRead

SpecDriver == InitDriver /\ [][NextDriver]_vars

(***************************************************************************)
(* One ramp on its own, over longer targets and over the rates a caller    *)
(* can pass.                                                               *)
(***************************************************************************)
LongTargets == { 50 * k : k \in 1 .. (2 * MaxRampSteps) }
RampRates == {DefaultRate, 0, -DefaultRate}

NextRamp ==
    \/ ramps < 1 /\ \E target \in LongTargets, rate \in RampRates :
          RampVoltage(target, rate)
    \/ \E r \in RampIds : RampLoop(r)
    \/ \E t \in Threads : Write(t)
    \/ faults < MaxFaults /\ \E t \in Threads : WriteFault(t)
    \/ \E line \in DeviceLines : Device(line)
    \/ \E t \in Threads : Read(t)
    \/ faults < MaxFaults /\ \E t \in Threads : ReadTimeout(t)
    \/ faults < MaxFaults /\ \E t \in Threads : ReadFault(t)

SpecRamp == InitDriver /\ [][NextRamp]_vars

\* the scheduler runs a thread that can take a step, and the supply answers
SpecRampFair == SpecRamp /\ WF_vars(NextRamp)

(***************************************************************************)
(* get_voltage_current_mode over the responses a GETD exchange can bring.  *)
(***************************************************************************)
ReadingChars == {"0", "1", "X"}

Texts(n) == UNION { [1 .. k -> ReadingChars] : k \in 0 .. n }

GetdOutcomes(n) ==
    { Line(s \o << "CR", "LF" >>) : s \in Texts(n) }
       \cup { Line(<< >>), WriteError, ReadError }

InitDisplay ==
    /\ SubsystemInit
    /\ numPS = NumChannels
    /\ DriverInit
    /\ debug_mode \in BOOLEAN
    /\ getd_io \in GetdOutcomes(MaxReadingLen)
    /\ debug_mode => getd_io = Line(<< >>)
    /\ reading_result = Measured(FALSE, NoReading, << >>, "none")

NextDisplay == ReadDisplay

SpecDisplay == InitDisplay /\ [][NextDisplay]_vars

(***************************************************************************)
(* The setpoint handlers of the subsystem: set_target_current and the      *)
(* manual heater voltage, after the first poll.                            *)
(***************************************************************************)
\* serial exchanges update_predictions_from_voltage can start
ManualExchanges(i) == IF HasPowerSupply(i) THEN 2 ELSE 0

\* target entries explored together with the manual voltage
SetpointEntries == { Entry(0), Entry(72000), Entry(36000), Entry(72) }

NextSetpoints ==
    \/ /\ now < 1 /\ UpdateData(SteadySteps)
       /\ UNCHANGED << driverVars, parseVars >>
    \/ /\ ops < MaxOps /\ \E i \in Channels, e \in SetpointEntries :
             \E io1 \in IoChoices(SetTargetExchanges(i, e), 1),
                io2 \in IoChoices(SetTargetExchanges(i, e), 2) :
                   SetTargetCurrent(i, e, io1, io2)
       /\ UNCHANGED << driverVars, parseVars >>
    \/ /\ ops < MaxOps /\ \E i \in Channels, v \in ManualVoltages :
             \E io1 \in IoChoices(ManualExchanges(i), 1),
                io2 \in IoChoices(ManualExchanges(i), 2) :
                   ManualVoltage(i, v, io1, io2)
       /\ UNCHANGED << driverVars, parseVars >>
    \/ /\ ops < MaxOps /\ \E i \in Channels : ManualVoltageCancelled(i)
       /\ UNCHANGED << driverVars, parseVars >>

SpecSetpoints == Init /\ [][NextSetpoints]_vars

(***************************************************************************)
(* The operator's handlers on a subsystem on which any of the ports may    *)
(* have failed to open.                                                    *)
(***************************************************************************)
NextPorts ==
    \/ /\ now < 1 /\ UpdateData(SteadySteps)
       /\ UNCHANGED << driverVars, parseVars >>
    \/ /\ ops < MaxOps /\ \E i \in Channels, e \in SubsystemLimitEntries :
             SetOvertempLimit(i, e)
       /\ UNCHANGED << driverVars, parseVars >>
    \/ /\ ops < MaxOps /\ \E i \in Channels :
             \E io \in IoChoices(ToggleExchanges(i), 1) : ToggleOutput(i, io)
       /\ UNCHANGED << driverVars, parseVars >>
    \/ /\ ops < MaxOps /\ \E i \in Channels, e \in SetpointEntries :
             \E io1 \in IoChoices(SetTargetExchanges(i, e), 1),
                io2 \in IoChoices(SetTargetExchanges(i, e), 2) :
                   SetTargetCurrent(i, e, io1, io2)
       /\ UNCHANGED << driverVars, parseVars >>
    \/ /\ ops < MaxOps /\ \E i \in Channels, v \in ManualVoltages :
             \E io1 \in IoChoices(ManualExchanges(i), 1),
                io2 \in IoChoices(ManualExchanges(i), 2) :
                   ManualVoltage(i, v, io1, io2)
       /\ UNCHANGED << driverVars, parseVars >>

SpecPorts == InitAnyPorts /\ [][NextPorts]_vars

(***************************************************************************)
(* set_voltage and set_current on their own, over the values a caller can  *)
(* pass: every thousandth of a unit up to MaxEncode, the top of the range, *)
(* values above it and negative values.                                    *)
(***************************************************************************)
MaxEncode == 1250
TopOfRange == 99990
EncodeValues == (0 .. MaxEncode) \cup {-500, -1, TopOfRange, 99999, 100000}
EncodeOps == {"set_voltage", "set_current"}

\* set_voltage(1, v / 1000) or set_current(1, v / 1000); the call keeps the
\* decimal it was given
EncodeCall(op, v) ==
    ACall(op, IF op = "set_voltage" THEN VoltCommand(1, PyFloat(v))
              ELSE CurrCommand(1, PyFloat(v)), v)

NextEncode ==
    \/ calls < MaxCalls /\ \E op \in EncodeOps, v \in EncodeValues : Call(EncodeCall(op, v))
    \/ Write(Caller)
    \/ \E line \in DeviceLines : Device(line)
    \/ Read(Caller)
    \/ faults < MaxFaults /\ ReadTimeout(Caller)

SpecEncode == InitDriver /\ [][NextEncode]_vars

(***************************************************************************)
(* One driver that is closed while its owner still calls it and a ramp     *)
(* thread may still be running.                                            *)
(***************************************************************************)
NextClose ==
    \/ Close
    \/ calls < MaxCalls /\ \E c \in CallerCalls : Call(c)
    \/ ramps < 1 /\ \E target \in RampTargets : RampVoltage(target, DefaultRate)
    \/ \E r \in RampIds : RampLoop(r)
    \/ \E t \in Threads : Write(t)
    \/ \E t \in Threads : WriteClosed(t)
    \/ \E line \in DeviceLines : Device(line)
    \/ \E t \in Threads : Read(t)
    \/ \E t \in Threads : ReadClosed(t)

SpecClose == InitDriver /\ [][NextClose]_vars

(***************************************************************************)
(* A ramp on a driver whose voltage may have been set before: one          *)
(* set_voltage of the owner, one ramp.                                     *)
(***************************************************************************)
\* the voltage the owner sets before the ramp, and the ramp's targets: below
\* and above it, zero and negative
StartVoltages == {200}
RestartTargets == {-100, 0, 100, 500}

NextRestart ==
    \/ calls < MaxCalls /\ \E v \in StartVoltages : Call(EncodeCall("set_voltage", v))
    \/ ramps < 1 /\ \E target \in RestartTargets : RampVoltage(target, DefaultRate)
    \/ \E r \in RampIds : RampLoop(r)
    \/ \E t \in Threads : Write(t)
    \/ \E line \in DeviceLines : Device(line)
    \/ \E t \in Threads : Read(t)

SpecRestart == InitDriver /\ [][NextRestart]_vars

(***************************************************************************)
(* Properties of the subsystem.                                            *)
(***************************************************************************)
\* the step just taken is operator event `op` on channel i
Handled(op, i) == handler' = [op |-> op, ch |-> i] /\ ops' = ops + 1
\* the step just taken is a poll cycle
Polled == handler'.op = "update_data" /\ now' = now + 1

LastOf(s) == s[Len(s)]

\* C1: set_target_current on a channel whose output is enabled is rejected:
\* whatever the entry holds, no field of the channel (target, ideal emission
\* current, the five derived display fields) changes, nothing is written to
\* any power supply, and the operator is shown a warning.
C1_RejectedWhileOutputEnabled ==
    [][\A i \in Channels :
          (Handled("set_target_current", i) /\ toggle_states[i]) =>
             /\ UNCHANGED << target_current_vars, ideal_cathode_emission_currents,
                             predicted_emission_current_vars,
                             predicted_grid_current_vars,
                             predicted_heater_current_vars, heater_voltage_vars,
                             predicted_temperature_vars, toggle_states >>
             /\ sent' = NoCommands
             /\ raised' = "none"
             /\ log' = << Event("showwarning", i) >>]_vars

C1_Witness ==
    /\ handler.op = "set_target_current"
    /\ toggle_states[handler.ch]
    /\ log = << Event("showwarning", handler.ch) >>
    /\ sent = NoCommands

\* C2 as claimed: in every state after the first poll, a channel's status is
\* Overtemp iff its most recent reading is strictly above its configured
\* limit, also right after set_overtemp_limit.
C2_StatusMatchesAlways ==
    Constructed =>
        \A i \in Channels :
            (overtemp_status_vars[i] = "OVERTEMP!")
                <=> (LastOf(temperature_data[i]) > overtemp_limit_vars[i])

\* C2 amended: in every state a poll cycle ends in, a channel's status is
\* Overtemp iff the reading of that cycle is strictly above the configured
\* limit; set_overtemp_limit changes the limit only, and the status follows
\* at the next poll.
C2_StatusMatchesAtPoll ==
    handler.op = "update_data" =>
        \A i \in Channels :
            (overtemp_status_vars[i] = "OVERTEMP!")
                <=> (LastOf(temperature_data[i]) > overtemp_limit_vars[i])

C2_Witness ==
    /\ handler.op = "update_data"
    /\ \E i, j \in Channels :
          /\ overtemp_status_vars[i] = "OVERTEMP!"
          /\ LastOf(temperature_data[i]) > overtemp_limit_vars[i]
          /\ overtemp_status_vars[j] = "OFF"
          /\ LastOf(temperature_data[j]) <= overtemp_limit_vars[j]

\* C3: a poll whose reading equals the limit leaves the channel not in
\* Overtemp, a reading above the limit gives Overtemp, and a reading at or
\* below the limit that follows an Overtemp poll returns the status to the
\* non-overtemp value.
C3_BoundaryNotSticky ==
    [][Polled =>
          \A i \in Channels :
              LET reading == LastOf(temperature_data'[i])
                  limit == overtemp_limit_vars[i]
              IN  /\ reading = limit => overtemp_status_vars'[i] # "OVERTEMP!"
                  /\ reading > limit => overtemp_status_vars'[i] = "OVERTEMP!"
                  /\ (overtemp_status_vars[i] = "OVERTEMP!" /\ reading <= limit)
                        => overtemp_status_vars'[i] = "OFF"]_vars

C3_Witness ==
    /\ handler.op = "update_data"
    /\ \E i \in Channels :
          /\ LastOf(temperature_data[i]) = overtemp_limit_vars[i]
          /\ overtemp_status_vars[i] = "OFF"
          /\ previous_status[i] = "OVERTEMP!"

C5_HistoryBounded ==
    \A i \in Channels :
        LET n == Min2(now, MAX_POINTS)
        IN  /\ Len(time_data[i]) = n
            /\ Len(temperature_data[i]) = n
            /\ n <= MAX_POINTS
            /\ \A k \in 1 .. n :
                  /\ time_data[i][k] = now - n + k
                  /\ temperature_data[i][k] = all_readings[i][now - n + k]

C5_Witness ==
    /\ now > MAX_POINTS + 1
    /\ \A i \in Channels :
          /\ Len(temperature_data[i]) = MAX_POINTS
          /\ time_data[i][1] = now - MAX_POINTS + 1
    /\ temperature_data[0][1] # temperature_data[0][2]

(***************************************************************************)
(* Properties of the driver.                                               *)
(***************************************************************************)
\* C6: on one port at most one command is outstanding: between the write of
\* a command and the read of its response no other thread writes a command,
\* and every thread reads the response to its own command.
C6_OneCommandOutstanding ==
    /\ Cardinality({ t \in Threads : pc[t] = "read" }) <= 1
    /\ \A t \in Threads : got[t] \in {NoThread, t}

\* C7: at most one ramp thread is active on a driver: a ramp started while
\* an earlier one is running ends the earlier one.
C7_OneRampActive == Cardinality({ r \in RampIds : RampActive(r) }) <= 1

\* C8: an operation that sets something counts as successful only when the
\* trimmed response is OK: toggle_output reports the output switched only
\* after reading a line that trims to OK.
C8_SuccessOnlyOnOK ==
    \A i \in Channels :
        ( /\ handler = [op |-> "toggle_output", ch |-> i]
          /\ \E k \in 1 .. Len(log) : log[k].msg \in {"output ON", "output OFF"} )
        => /\ Len(received[i]) = 1
           /\ Strip(received[i][1]) = TextOK

\* the response the call got is missing, is not 11 characters long, or one
\* of its two 5-character fields is not a number
Malformed(dbg, io) ==
    \/ dbg
    \/ io.kind # "line"
    \/ Len(Strip(io.raw)) # 11
    \/ ~IsFloatText(Slice(Strip(io.raw), 0, 5))
    \/ ~IsFloatText(Slice(Strip(io.raw), 5, 10))

\* C9: get_voltage_current_mode fails closed: on a missing or malformed
\* response it returns the sentinel reading (0.0, 0.0, "Err") and raises
\* nothing, with or without a message sink.
C9_FailsClosed ==
    (reading_result.done /\ Malformed(debug_mode, getd_io))
        => (reading_result.exc = "none" /\ reading_result.ret = Sentinel)

\* C10: a transport fault (no response within the timeout, an I/O error of
\* the serial layer) ends the operation with a failure value: the fault is
\* logged, no exception reaches the caller, and set_voltage and set_current
\* return False.
C10_FaultReturnsFailure ==
    \A t \in Threads :
        outcome[t].fault # "none"
        => /\ outcome[t].exc = "none"
           /\ outcome[t].logs # << >>
           /\ outcome[t].ret = (IF outcome[t].op \in {"set_voltage", "set_current"}
                                THEN FALSE ELSE None)

(***************************************************************************)
(* Properties of a ramp.                                                   *)
(***************************************************************************)
\* the last set_voltage of ramp thread r was not acknowledged
StepFailed(r) == outcome[r].op = "set_voltage" /\ outcome[r].ret = FALSE

\* C11: a ramp whose set_voltage is not acknowledged stops at once: it is
\* over, it has not advanced its voltage to the step that failed, and it
\* has passed Failure to its callback.
C11_FailedStepStopsRamp ==
    \A r \in RampIds :
        StepFailed(r) => /\ pc[r] = "finished"
                         /\ ramp_result[r] = "failed"
                         /\ Less(current_voltage[r], call[r].voltage)

\* C12: every ramp that was started ends with one call of its callback,
\* with Success exactly when every step up to the target was acknowledged.
C12_RampReports ==
    \A r \in RampIds :
        /\ [](pc[r] # "unborn" => <>(ramp_result[r] \in {"reached", "failed"}))
        /\ [](ramp_result[r] = "reached"
                 <=> (pc[r] = "finished"
                      /\ current_voltage[r] = FloatOf(target_voltage[r])))

\* the voltages a ramp commanded never fall, never rise by more than a
\* step, never pass the target and end at the target
RampShape(cs, target) ==
    /\ cs # << >>
    /\ cs[Len(cs)] = target
    /\ ~Less(step_size, cs[1])
    /\ \A k \in 1 .. Len(cs) : ~Less(target, cs[k])
    /\ \A k \in 2 .. Len(cs) : /\ ~Less(cs[k], cs[k - 1])
                               /\ ~Less(FloatAdd(cs[k - 1], step_size), cs[k])

\* ceil(T / 0.1), T in thousandths of a volt
StepsTo(target) == (target + 99) \div 100

\* C13: a ramp whose steps were all acknowledged commanded voltages that
\* never fall, never rise by more than 0.1 V, never pass the target T and
\* end at T, in ceil(T / 0.1) commands.
C13_RampSequence ==
    \A r \in RampIds :
        ramp_result[r] = "reached"
        => /\ RampShape(commanded[r], FloatOf(target_voltage[r]))
           /\ Len(commanded[r]) = StepsTo(target_voltage[r])

\* the five derived display variables of channel i
DerivedFields(i) ==
    Derived(predicted_emission_current_vars[i], predicted_grid_current_vars[i],
            predicted_heater_current_vars[i], heater_voltage_vars[i],
            predicted_temperature_vars[i])

ZeroSetpoints == { VoltCommand(1, PyFloat(0)), CurrCommand(1, PyFloat(0)) }

\* C14: set_target_current with target 0 on a channel whose output is
\* disabled completes (no exception escapes) with the five derived fields of
\* the channel all zero, and every command it sends is a zero setpoint for
\* voltage or current on preset 1, a zero voltage setpoint and a zero current
\* setpoint both being sent when a power supply is attached to the channel;
\* nothing is sent to any other supply.
C14_ZeroTargetZeroes ==
    [][\A i \in Channels : \A io \in SubsystemIo :
          (~toggle_states[i] /\ SetTargetCurrent(i, Entry(0), io, io)) =>
             /\ raised' = "none"
             /\ DerivedFields(i)' = AllZero
             /\ \A k \in 1 .. Len(sent'[i]) : sent'[i][k] \in ZeroSetpoints
             /\ HasPowerSupply(i) =>
                   \A c \in ZeroSetpoints : \E k \in 1 .. Len(sent'[i]) : sent'[i][k] = c
             /\ \A j \in Channels \ {i} : sent'[j] = << >>]_vars

\* the emission model's domain, in thousandths of a milliampere
InModelDomain(ideal) == EmissionModelMin <= ideal /\ ideal <= EmissionModelMax

GroupOf(f) == << f.heater_current, f.heater_voltage, f.grid, f.temperature >>

\* the group one computation attempt shows for a point of the models
ValidGroup(p) ==
    << Format2f(p.heater_current), Format2f(p.heater_voltage),
       Format2f((28 * p.emission) \div 100), Format0f(p.temperature_K - 273150) >>

\* the groups in which all four fields come from one attempt, or all four
\* hold the same placeholder
WholeGroups ==
    { ValidGroup(p) : p \in { q \in ManualPoints : InModelDomain(q.emission) } }
    \cup { << t, t, t, t >> : t \in {InitialText, ZeroText, NAText} }

\* C16: in every reachable state, after any sequence of set_target_current
\* and manual-voltage operations, the heater current, heater voltage, grid
\* current and predicted temperature of a channel are all valid values of one
\* computation attempt or all the placeholder: never a mix of valid and
\* placeholder fields, nor of values of different attempts.
C16_DerivedFieldsAtomic ==
    \A i \in Channels : GroupOf(DerivedFields(i)) \in WholeGroups

OutOfRangeEvent(i) == Event("Emission current is out of the interpolation range.", i)

\* C20: when the manual-voltage operation finds the emission current derived
\* from the heater current out of range, it sets the emission, grid-current
\* and temperature fields of the channel to N/A and no others, and the heater
\* voltage and heater current fields hold the valid values of the same call:
\* the voltage entered and the heater current interpolated from it.
C20_PerFieldFailure ==
    [][\A i \in Channels :
          (/\ Handled("on_voltage_label_click", i)
           /\ \E k \in 1 .. Len(log') : log'[k] = OutOfRangeEvent(i)) =>
             /\ predicted_emission_current_vars'[i] = NAText
             /\ predicted_grid_current_vars'[i] = NAText
             /\ predicted_temperature_vars'[i] = NAText
             /\ \E v \in ManualVoltages :
                   /\ ~InModelDomain(ManualPoint(v).emission)
                   /\ heater_voltage_vars'[i] = Format2f(v)
                   /\ predicted_heater_current_vars'[i] =
                         Format2f(ManualPoint(v).heater_current)
             /\ \A j \in Channels \ {i} : DerivedFields(j)' = DerivedFields(j)]_vars

C20_Witness ==
    /\ handler.op = "on_voltage_label_click"
    /\ \E k \in 1 .. Len(log) : log[k] = OutOfRangeEvent(handler.ch)
    /\ predicted_emission_current_vars[handler.ch] = NAText
    /\ heater_voltage_vars[handler.ch] = Format2f(9000)
    /\ Len(sent[handler.ch]) = 2

\* the magnitude field of a VOLT or CURR command: what follows the keyword,
\* the space and the preset digit
Field(cmd) == SubSeq(cmd, 7, Len(cmd))

\* the calling thread is inside, or has finished, set_voltage or set_current
\* with a value of the representable range [0.00, 99.99]
EncodedInRange ==
    /\ call[Caller].op \in EncodeOps
    /\ call[Caller].voltage \in 0 .. TopOfRange

\* round(x * 100) for a float x >= 0: the product rounded to the nearest
\* integer, ties to even
RoundTimes100(x) ==
    The({ The({ IF Less(PowerOfTwo(FracBits - 1), frac)
                   \/ (frac = PowerOfTwo(FracBits - 1) /\ Truncated(product) % 2 = 1)
                THEN Truncated(product) + 1
                ELSE Truncated(product) :
                  frac \in { Trim(SubSeq(product, 1, Min2(FracLimbs, Len(product)))) } }) :
            product \in { FloatTimes(x.mag, 100) } })

\* C17: for every value in [0.00, 99.99], also one with more than two
\* decimals, the magnitude field set_voltage and set_current put in the
\* command is round(value * 100), zero-padded to four digits.
C17_FieldIsRounded ==
    EncodedInRange =>
        Field(call[Caller].cmd) =
            ZeroPad(Digits(RoundTimes100(PyFloat(call[Caller].voltage))), 4)

IsDigit(c) == \E d \in 1 .. 10 : DigitChars[d] = c

\* C18: whatever value set_voltage or set_current is given, negative values
\* and values of 100.00 or more included, a command written to the port has a
\* magnitude field of exactly four decimal digits: a field with a sign or
\* with five or more digits is never written.
C18_FieldFourDigits ==
    \A k \in 1 .. Len(wire) :
        LET cmd == wire[k].cmd
        IN  SubSeq(cmd, 1, 4) \in { << "V", "O", "L", "T" >>, << "C", "U", "R", "R" >> } =>
               /\ Len(Field(cmd)) = 4
               /\ \A j \in 1 .. 4 : IsDigit(Field(cmd)[j])

\* one, in the units of the floats
One == PowerOfTwo(FracBits)

\* |x - d| <= 0.01 for two floats x, d >= 0, in exact arithmetic
WithinHundredth(x, d) ==
    The({ /\ ~Less(Add(b, One), a)
          /\ ~Less(Add(a, One), b) : a \in { Times(x, 100) }, b \in { Times(d, 100) } })

\* field / 100, the float the 4-digit field decodes to
Decoded(field) == FloatOf(10 * FloatValue(field))

\* C19: for every voltage in [0.00, 99.99], the float decoded from the field
\* set_voltage produced (field / 100) differs from the voltage passed in by
\* at most 0.01.
C19_RoundTripWithinHundredth ==
    (EncodedInRange /\ call[Caller].op = "set_voltage") =>
        WithinHundredth(PyFloat(call[Caller].voltage).mag,
                        Decoded(Field(call[Caller].cmd)))

\* the device gave no response to the command the handler wrote on channel i:
\* every line the handler read is empty or blank
Unanswered(i) ==
    /\ sent'[i] # << >>
    /\ \A k \in 1 .. Len(received'[i]) : Strip(received'[i][k]) = << >>

\* C21: when the output command toggle_output sends gets no response from the
\* device, the channel's output flag keeps the value it had before the call.
C21_FlagKeptWithoutResponse ==
    [][\A i \in Channels :
          (Handled("toggle_output", i) /\ Unanswered(i)) =>
             toggle_states'[i] = toggle_states[i]]_vars

\* the calling thread has written the VOLT command of a setpoint and is
\* waiting for its response; ramp_voltage is called from this thread, so a
\* ramp that exists now was started before the setpoint
SetpointSent == call[Caller].op = "set_voltage" /\ pc[Caller] = "read"

\* ramp thread r writes a command to the port in this step
RampWrites(r) == pc[r] = "write" /\ pc'[r] = "read" /\ Len(wire') = Len(wire) + 1

\* C22: a new setpoint cancels the ramps in flight: once the setpoint's
\* set_voltage has been sent, no ramp started earlier sends a set_voltage
\* command.
C22_SetpointCancelsRamp ==
    [][\A r \in RampIds : (SetpointSent /\ pc[r] # "unborn") => ~RampWrites(r)]_vars

\* the overtemperature events the step just taken logged for channel i
OvertempLogged(i) ==
    Cardinality({ k \in 1 .. Len(log') : log'[k] = Event("OVERTEMP!", i) })

\* C23: a poll logs an overtemperature event for a channel on, and only on,
\* a transition of its status to Overtemp: one event on the transition, none
\* on a poll that finds the channel already in Overtemp, none on a poll that
\* leaves it out of Overtemp.
C23_LogOnTransitionOnly ==
    [][Polled =>
          \A i \in Channels :
             OvertempLogged(i) =
                IF overtemp_status_vars[i] # "OVERTEMP!"
                   /\ overtemp_status_vars'[i] = "OVERTEMP!"
                THEN 1 ELSE 0]_vars

\* C24: a safety poll cycle changes only the measured temperature, the
\* temperature history and the status of the channels: the output flags, the
\* configured limits, the targets and the derived setpoint fields stay as
\* they were and no command is written to any power supply, also when the
\* poll sets a status to Overtemp.
C24_PollFrame ==
    [][Polled =>
          /\ UNCHANGED << toggle_states, overtemp_limit_vars, target_current_vars,
                          ideal_cathode_emission_currents,
                          predicted_emission_current_vars,
                          predicted_grid_current_vars,
                          predicted_heater_current_vars, heater_voltage_vars,
                          predicted_temperature_vars >>
          /\ sent' = NoCommands]_vars

\* a poll after the first has just set the status of a channel whose output
\* is enabled to Overtemp
C24_Witness ==
    /\ handler.op = "update_data"
    /\ now > 1
    /\ sent = NoCommands
    /\ \E i \in Channels :
          /\ overtemp_status_vars[i] = "OVERTEMP!"
          /\ previous_status[i] # "OVERTEMP!"
          /\ toggle_states[i]

\* an operation that came back with its failure value and raised nothing
Failed(o) ==
    /\ o.exc = "none"
    /\ o.ret = (IF o.op \in {"set_voltage", "set_current"} THEN FALSE ELSE None)

\* the calling thread's operation ends in this step
CallerEnds == pc'[Caller] = "idle" /\ (pc[Caller] # "idle" \/ calls' # calls)

\* ramp thread r ends in this step without having reached its target
RampEndsShort(r) ==
    /\ RampActive(r)
    /\ pc'[r] \in {"finished", "crashed"}
    /\ ramp_result'[r] # "reached"

\* C25: after close() the driver is unusable in every mode: every operation
\* that ends afterwards returns a failure, no command is written to the port,
\* and a ramp inside set_voltage does not go on to its next step but stops
\* and reports Failure.
C25_ClosedDriverFails ==
    [][~is_open =>
          /\ Len(wire') <= Len(wire)
          /\ CallerEnds => Failed(outcome'[Caller])
          /\ \A r \in RampIds :
                /\ (pc[r] \in {"write", "read"}) => pc'[r] # "loop"
                /\ RampEndsShort(r) =>
                      (Failed(outcome'[r]) /\ ramp_result'[r] = "failed")]_vars

OperatorEvents ==
    {"set_target_current", "on_voltage_label_click", "set_overtemp_limit", "toggle_output"}

\* every field of channel j
ChannelFields(j) ==
    << toggle_states[j], target_current_vars[j], ideal_cathode_emission_currents[j],
       DerivedFields(j), overtemp_limit_vars[j], overtemp_status_vars[j],
       clamp_temperature_vars[j], time_data[j], temperature_data[j] >>

\* the supplies, by position in self.power_supplies, the step just taken
\* wrote to
WrittenTo == { k \in Channels : sent'[k] # << >> }

\* C26: set_target_current, the manual-voltage operation, set_overtemp_limit
\* and toggle_output on channel i, whether they succeed or fail, leave every
\* field of every other channel unchanged and write no command to the port of
\* another channel.
C26_ChannelScoped ==
    [][\A i \in Channels : \A op \in OperatorEvents :
          Handled(op, i) =>
             /\ \A j \in Channels \ {i} : ChannelFields(j)' = ChannelFields(j)
             /\ \A k \in WrittenTo : k < numPS /\ supply_ports[k + 1] = i]_vars

\* the last handler was set_target_current on channel i with an in-range
\* target, on a channel with a power supply
InRangeSetpoint(i) ==
    /\ handler = [op |-> "set_target_current", ch |-> i]
    /\ HasPowerSupply(i)
    /\ \E k \in 1 .. Len(log) : log[k].msg = "Interpolated heater current"

\* one of the handler's commands on channel i was not acknowledged
NotAcknowledged(i) ==
    \E k \in 1 .. Len(received[i]) : Strip(received[i][k]) # TextOK

\* what an attempt shows for a point of the models
ShownFor(p) ==
    Derived(Format2f(p.emission), Format2f((28 * p.emission) \div 100),
            Format2f(p.heater_current), Format2f(p.heater_voltage),
            Format0f(p.temperature_K - 273150))

\* C27: for an in-range target set_target_current sends set_voltage for
\* preset 1 and then set_current for preset 1; when one of them is not
\* acknowledged the failure is logged, the operation still completes (no
\* exception, the final log line is written) and the derived fields show the
\* newly computed values.
C27_PushFailureKeepsFields ==
    \A i \in Channels :
        (InRangeSetpoint(i) /\ NotAcknowledged(i)) =>
           \E p \in ModelPoints :
              /\ sent[i] = << VoltCommand(1, PyFloat(p.heater_voltage)),
                              CurrCommand(1, PyFloat(p.heater_current)) >>
              /\ raised = "none"
              /\ \E k \in 1 .. Len(log) :
                    log[k].msg \in {"Error setting voltage", "Error setting current"}
              /\ log[Len(log)].msg = "Set power supply"
              /\ DerivedFields(i) = ShownFor(p)

\* the owner's set_voltage has been acknowledged and nothing of the owner is
\* under way
OwnerHasSet ==
    /\ pc[Caller] = "idle"
    /\ outcome[Caller].op = "set_voltage"
    /\ outcome[Caller].ret

\* ramp thread r passes its first voltage to set_voltage in this step
FirstStep(r) == pc[r] = "loop" /\ commanded[r] = << >> /\ Len(commanded'[r]) = 1

\* min(last + 0.1, target), for the last commanded voltage `last`
FirstFrom(last, r) == FloatMin(FloatAdd(last, step_size), FloatOf(target_voltage[r]))

\* C28: a ramp starts from the last voltage commanded on the driver: its
\* first set_voltage carries min(last_commanded + 0.1, target), and it starts
\* from 0.0 only when no voltage has been commanded before.
C28_StartsFromLastCommanded ==
    [][\A r \in RampIds :
          FirstStep(r) =>
             /\ calls = 0 => commanded'[r][1] = FirstFrom(FloatOf(0), r)
             /\ OwnerHasSet =>
                   commanded'[r][1] = FirstFrom(PyFloat(call[Caller].voltage).mag, r)]_vars

\* the warning update_predictions_from_voltage logs for a heater current
\* outside the model's domain
OutOfDomainEvent(i) ==
    Event("Warning: Heater current is out of the emission model's interpolation range.", i)

\* C29: in the manual-voltage operation, when the heater current interpolated
\* from the entered voltage is outside the model's domain, no set_voltage or
\* set_current command carrying the invalid value is sent to the power supply.
C29_OutOfDomainNotSent ==
    \A i \in Channels :
       (/\ handler = [op |-> "on_voltage_label_click", ch |-> i]
        /\ \E k \in 1 .. Len(log) : log[k] = OutOfDomainEvent(i)) =>
          sent[i] = << >>

\* ramp thread r was started with a target of 0 or below
NonPositiveRamp(r) == pc[r] # "unborn" /\ target_voltage[r] <= 0

\* C30: a ramp whose target is 0 or negative sends no command to the device
\* and reports Success through its callback immediately: the thread's first
\* step ends it with callback(True).
C30_NonPositiveTargetSucceeds ==
    \A r \in RampIds :
       NonPositiveRamp(r) =>
          /\ commanded[r] = << >>
          /\ \A k \in 1 .. Len(wire) : wire[k].by # r
          /\ pc[r] # "loop" => (pc[r] = "finished" /\ ramp_result[r] = "reached")

\* the calling thread is back from operation op
CallerBackFrom(op) == pc[Caller] = "idle" /\ outcome[Caller].op = op

\* ramp thread r was started with a positive target and has left its first
\* pass of the loop
PositiveRampRan(r) == pc[r] \notin {"unborn", "loop"} /\ target_voltage[r] > 0

\* C31: in mock mode send_command returns, without touching the port, a
\* placeholder that embeds the command and is never OK; set_voltage and
\* set_current therefore always return False, and a ramp with a positive
\* target issues exactly one set_voltage call and reports Failure.
C31_MockModeFails ==
    debug_mode =>
       /\ wire = << >>
       /\ CallerBackFrom("set_output") =>
             /\ outcome[Caller].ret = Some(MockResponse(call[Caller].cmd))
             /\ ~Acknowledged(outcome[Caller].ret)
       /\ \A op \in {"set_voltage", "set_current"} :
             CallerBackFrom(op) =>
                (outcome[Caller].exc = "none" /\ outcome[Caller].ret = FALSE)
       /\ \A r \in RampIds :
             /\ Len(commanded[r]) <= 1
             /\ PositiveRampRan(r) =>
                   /\ Len(commanded[r]) = 1
                   /\ pc[r] = "finished"
                   /\ ramp_result[r] = "failed"
====
